---- MODULE Spec2Model ----
(***************************************************************************)
(* A model of tagging/utils.py: the tag input parser (parse_tag_input,     *)
(* build_tag, normalize_tag_part, split_strip), the tag part splitter      *)
(* (get_tag_parts) and the serializer (edit_string_for_tags).              *)
(*                                                                         *)
(* A Python string is a sequence of one-character strings.  None is the    *)
(* one-element sequence <<"None">>, which is no string over Chars.         *)
(***************************************************************************)
EXTENDS Integers, Sequences, FiniteSets

VARIABLES
    arg,              \* parse_tag_input: the argument it was called with
    input,            \* parse_tag_input: the local `input` (the unconsumed suffix)
    token_list,       \* parse_tag_input: the (name, content) pairs appended so far
    saw_loose_comma,  \* parse_tag_input: the flag of the same name
    wordlist,         \* parse_tag_input: the values of `word` handed to build_tag, in order
    words,            \* parse_tag_input: the list returned
    tag_parts,        \* get_tag_filter_lookup: [get_tag_parts(tag) for tag in tags]
    tags,             \* edit_string_for_tags, calculate_cloud: the list of Tag objects given
    edit_string,      \* edit_string_for_tags: the string returned
    tag,              \* get_tag_parts: the string given
    parts,            \* get_tag_parts: the dictionary returned, or the error raised;
                      \* build_tag: its namespace, name and value
    given,            \* the argument of the function called: its type and its value
    store,            \* Tag.objects: the Tag records stored
    queries,          \* the lookups made on Tag.objects, in order
    result,           \* what the function called returned, or the error it raised
    settings,         \* tagging.settings: the four length limits
    pc                \* where the run is

vars == <<arg, input, token_list, saw_loose_comma, wordlist, words, tag_parts,
          tags, edit_string, tag, parts, given, store, queries, result, settings, pc>>

parseVars == <<arg, input, token_list, saw_loose_comma, wordlist, words>>

callVars == <<given, store, queries, result, settings>>

otherVars == <<tags, edit_string, tag, parts, callVars>>

----------------------------------------------------------------------------
(* Bounds and alphabets *)

\* the longest argument string parse_tag_input is called with
MaxLen == 4

\* the most characters the parts of the tags of one list hold together
MaxTagChars == 3

\* the most Tag objects in the list given to edit_string_for_tags
MaxTags == 2

None == <<"None">>

\* the value of a variable of a function that is not the one called
NotCalled == [type |-> "not called"]

Whitespace == {" ", "\n", "\t"}

Chars == {"a", "b", ",", ":", "=", "\""} \cup Whitespace

\* the code point of a character: Python orders unicode strings by it
Ord(c) ==
    CASE c = "\t" -> 9
      [] c = "\n" -> 10
      [] c = " "  -> 32
      [] c = "\"" -> 34
      [] c = ","  -> 44
      [] c = ":"  -> 58
      [] c = "="  -> 61
      [] c = "a"  -> 97
      [] c = "b"  -> 98

RECURSIVE StringsOfLen(_)
StringsOfLen(n) ==
    IF n = 0 THEN {<<>>}
    ELSE {Append(s, c) : s \in StringsOfLen(n - 1), c \in Chars}

Strings == UNION {StringsOfLen(n) : n \in 0..MaxLen}

\* the characters of the parts of stored tags
TagChars == {"a", " ", "\t", "\n", ",", ":", "="}

RECURSIVE PartsOfLen(_)
PartsOfLen(n) ==
    IF n = 0 THEN {<<>>}
    ELSE {Append(s, c) : s \in PartsOfLen(n - 1), c \in TagChars}

PartsUpTo(n) == UNION {PartsOfLen(k) : k \in 0..n}

\* a namespace or value of at most n characters: None when absent
OptionalPart(n) == {None} \cup (PartsUpTo(n) \ {<<>>})

PartLen(v) == IF v = None THEN 0 ELSE Len(v)

\* the Tag objects whose parts hold at most n characters; the name is not empty
TagsUpTo(n) ==
    UNION {UNION {{[namespace |-> ns, name |-> nm, value |-> v] :
                        v \in OptionalPart(n - Len(nm) - PartLen(ns))} :
                  ns \in OptionalPart(n - Len(nm))} :
           nm \in PartsUpTo(n) \ {<<>>}}

TagSize(t) == Len(t.name) + PartLen(t.namespace) + PartLen(t.value)

RECURSIVE TagListsUpTo(_, _)
\* the lists of at most k tags that hold at most n characters
TagListsUpTo(k, n) ==
    IF k = 0 THEN {<<>>}
    ELSE {<<>>} \cup UNION {{<<t>> \o l : l \in TagListsUpTo(k - 1, n - TagSize(t))} :
                            t \in TagsUpTo(n)}

----------------------------------------------------------------------------
(* Python string primitives *)

Drop(s, k) == SubSeq(s, k + 1, Len(s))

Take(s, k) == SubSeq(s, 1, k)

Contains(s, c) == \E i \in 1..Len(s) : s[i] = c

RECURSIVE Concat(_)
\* ''.join(list)
Concat(list) ==
    IF list = <<>> THEN <<>> ELSE Head(list) \o Concat(Tail(list))

\* the length of the longest prefix of s made of characters of S
RunLen(s, S) ==
    IF \E i \in 1..Len(s) : s[i] \notin S
    THEN (CHOOSE i \in 1..Len(s) : s[i] \notin S /\ \A j \in 1..(i - 1) : s[j] \in S) - 1
    ELSE Len(s)

\* unicode.strip()
Strip(s) ==
    LET lead == RunLen(s, Whitespace)
        rest == Drop(s, lead)
        keep == IF rest = <<>> THEN 0
                ELSE CHOOSE k \in 1..Len(rest) :
                        /\ rest[k] \notin Whitespace
                        /\ \A j \in (k + 1)..Len(rest) : rest[j] \in Whitespace
    IN  Take(rest, keep)

RECURSIVE Split(_, _)
\* unicode.split(delimiter) for a one-character delimiter
Split(s, delimiter) ==
    IF ~Contains(s, delimiter) THEN <<s>>
    ELSE LET i == CHOOSE i \in 1..Len(s) :
                    s[i] = delimiter /\ \A j \in 1..(i - 1) : s[j] # delimiter
         IN  <<Take(s, i - 1)>> \o Split(Drop(s, i), delimiter)

\* s < t in Python's order of unicode strings
StrLess(s, t) ==
    \E i \in 1..(Len(t)) :
        /\ \A j \in 1..(i - 1) : j <= Len(s) /\ s[j] = t[j]
        /\ \/ i = Len(s) + 1
           \/ i <= Len(s) /\ Ord(s[i]) < Ord(t[i])

RECURSIVE SortSetDescending(_)
\* a sort that puts the greatest string first
SortSetDescending(S) ==
    IF S = {} THEN <<>>
    ELSE LET m == CHOOSE x \in S : \A y \in S \ {x} : StrLess(y, x)
         IN  <<m>> \o SortSetDescending(S \ {m})

RECURSIVE SortSet(_)
\* list(set); list.sort()
SortSet(S) ==
    IF S = {} THEN <<>>
    ELSE LET m == CHOOSE x \in S : \A y \in S \ {x} : StrLess(x, y)
         IN  <<m>> \o SortSet(S \ {m})

SeqToSet(q) == {q[i] : i \in 1..Len(q)}

----------------------------------------------------------------------------
(* The token patterns, each compiled as ^(token)(rest)$ with rest = any run of `.` *)

\* the rest group and `$` that follow every token: `.` matches no newline, and `$`
\* matches at the end of the string or before a newline that ends it
RestMatches(rest) == \A i \in 1..Len(rest) : rest[i] = "\n" => i = Len(rest)

\* what the rest group captures: the rest without the newline that ends it
RestGroup(rest) ==
    IF rest # <<>> /\ rest[Len(rest)] = "\n" THEN Take(rest, Len(rest) - 1) ELSE rest

\* the first " after position 1, or 0
ClosingQuote(s) ==
    IF \E j \in 2..Len(s) : s[j] = "\""
    THEN CHOOSE j \in 2..Len(s) : s[j] = "\"" /\ \A k \in 2..(j - 1) : s[k] # "\""
    ELSE 0

\* the tag part pattern without its quoted-run alternative
PartTokenWithoutQuotedRun(s) ==
    IF s = <<>> THEN {}
    ELSE IF s[1] \in {":", "="} THEN {1}
    ELSE 1..RunLen(s, Chars \ ({",", ":", "=", "\""} \cup Whitespace))

\* RE_TAG_PART_TOKEN  [:=]|"[^"]*"|[^,\s:="]+ : the lengths its token can have
RE_TAG_PART_TOKEN(s) ==
    IF s = <<>> THEN {}
    ELSE IF s[1] \in {":", "="} THEN {1}
    ELSE IF s[1] = "\"" THEN (IF ClosingQuote(s) > 0 THEN {ClosingQuote(s)} ELSE {})
    ELSE 1..RunLen(s, Chars \ ({",", ":", "=", "\""} \cup Whitespace))

\* RE_SPACE_TOKEN  \s+
RE_SPACE_TOKEN(s) == 1..RunLen(s, Whitespace)

\* RE_COMMA_TOKEN  \s*,\s*
RE_COMMA_TOKEN(s) ==
    LET lead == RunLen(s, Whitespace)
    IN  IF lead < Len(s) /\ s[lead + 1] = ","
        THEN {lead + 1 + k : k \in 0..RunLen(Drop(s, lead + 1), Whitespace)}
        ELSE {}

\* RE_CHAR_TOKEN  [:=]|[^,\s:=]+
RE_CHAR_TOKEN(s) ==
    IF s = <<>> THEN {}
    ELSE IF s[1] \in {":", "="} THEN {1}
    ELSE 1..RunLen(s, Chars \ ({",", ":", "="} \cup Whitespace))

token_definition == <<"part", "space", "comma", "char">>

TokenLengths(name, s) ==
    CASE name = "part"  -> RE_TAG_PART_TOKEN(s)
      [] name = "space" -> RE_SPACE_TOKEN(s)
      [] name = "comma" -> RE_COMMA_TOKEN(s)
      [] name = "char"  -> RE_CHAR_TOKEN(s)

\* token.match(input): the greedy quantifiers give the longest token after
\* which the rest matches; 0 when the pattern does not match
MatchLen(name, s) ==
    LET ok == {k \in TokenLengths(name, s) : RestMatches(Drop(s, k))}
    IN  IF ok = {} THEN 0 ELSE CHOOSE k \in ok : \A j \in ok : j <= k

\* the `for token, name in token_definition` loop: the index of the first
\* pattern that matches, or 0 when the loop ends without a break
FirstMatch(s) ==
    IF \E i \in 1..Len(token_definition) : MatchLen(token_definition[i], s) > 0
    THEN CHOOSE i \in 1..Len(token_definition) :
            /\ MatchLen(token_definition[i], s) > 0
            /\ \A j \in 1..(i - 1) : MatchLen(token_definition[j], s) = 0
    ELSE 0

----------------------------------------------------------------------------
(* normalize_tag_part, build_tag, split_strip *)

RemoveQuotes(s) == SelectSeq(s, LAMBDA c : c # "\"")

\* a normalization that wraps a part that holds a comma as well
normalize_tag_part_wrapping_commas(s) ==
    LET stripped == RemoveQuotes(s)
    IN  IF stripped = <<>> THEN <<>>
        ELSE IF Contains(stripped, ":") \/ Contains(stripped, "=") \/ Contains(stripped, ",")
             THEN <<"\"">> \o stripped \o <<"\"">>
        ELSE stripped

normalize_tag_part(s) ==
    LET stripped == RemoveQuotes(s)
    IN  IF stripped = <<>> THEN <<>>
        ELSE IF Contains(stripped, ":") \/ Contains(stripped, "=")
             THEN <<"\"">> \o stripped \o <<"\"">>
        ELSE stripped

\* one pass of the loop if an '=' that does not split went into the part being built
BuildStepFolding(st, token) ==
    IF st.lms = "none" THEN
        IF token = <<":">> THEN [st EXCEPT !.lms = ":"]
        ELSE IF token = <<"=">> /\ st.left # <<>> THEN [st EXCEPT !.lms = "="]
        ELSE [st EXCEPT !.left = Append(@, token)]
    ELSE IF st.lms = ":" THEN
        IF st.mrs = "none" THEN
            IF token = <<"=">> /\ st.middle # <<>> THEN [st EXCEPT !.mrs = "="]
            ELSE [st EXCEPT !.middle = Append(@, token)]
        ELSE [st EXCEPT !.right = Append(@, token)]
    ELSE [st EXCEPT !.middle = Append(@, token)]

\* one pass of the loop if a ':' after the '=' separator split once more
BuildStepSplittingAgain(st, token) ==
    IF st.lms = "none" THEN
        IF token = <<":">> THEN [st EXCEPT !.lms = ":"]
        ELSE IF token = <<"=">> THEN
            (IF st.left # <<>> THEN [st EXCEPT !.lms = "="] ELSE st)
        ELSE [st EXCEPT !.left = Append(@, token)]
    ELSE IF st.lms = ":" THEN
        IF st.mrs = "none" THEN
            IF token = <<"=">> THEN
                (IF st.middle # <<>> THEN [st EXCEPT !.mrs = "="] ELSE st)
            ELSE [st EXCEPT !.middle = Append(@, token)]
        ELSE [st EXCEPT !.right = Append(@, token)]
    ELSE IF token = <<":">> THEN [st EXCEPT !.middle = <<>>]
    ELSE [st EXCEPT !.middle = Append(@, token)]

\* one pass of build_tag's `for token in tokens` over the scan state
BuildStep(st, token) ==
    IF st.lms = "none" THEN
        IF token = <<":">> THEN [st EXCEPT !.lms = ":"]
        ELSE IF token = <<"=">> THEN
            (IF st.left # <<>> THEN [st EXCEPT !.lms = "="] ELSE st)
        ELSE [st EXCEPT !.left = Append(@, token)]
    ELSE IF st.lms = ":" THEN
        IF st.mrs = "none" THEN
            IF token = <<"=">> THEN
                (IF st.middle # <<>> THEN [st EXCEPT !.mrs = "="] ELSE st)
            ELSE [st EXCEPT !.middle = Append(@, token)]
        ELSE [st EXCEPT !.right = Append(@, token)]
    ELSE [st EXCEPT !.middle = Append(@, token)]

RECURSIVE BuildScan(_, _)
BuildScan(st, tokens) ==
    IF tokens = <<>> THEN st ELSE BuildScan(BuildStep(st, Head(tokens)), Tail(tokens))

\* the normalized (namespace, name, value) build_tag assembles for a word
BuildParts(tokens) ==
    IF <<":">> \notin SeqToSet(tokens) /\ <<"=">> \notin SeqToSet(tokens)
    THEN [namespace |-> <<>>, name |-> normalize_tag_part(Concat(tokens)), value |-> <<>>]
    ELSE LET st == BuildScan([left |-> <<>>, lms |-> "none", middle |-> <<>>,
                              mrs |-> "none", right |-> <<>>], tokens)
             raw == IF st.lms = "=" THEN <<<<>>, st.left, st.middle>>
                    ELSE IF st.middle # <<>> THEN <<st.left, st.middle, st.right>>
                    ELSE <<<<>>, st.left, <<>>>>
         IN  [namespace |-> normalize_tag_part(Concat(raw[1])),
              name      |-> normalize_tag_part(Concat(raw[2])),
              value     |-> normalize_tag_part(Concat(raw[3]))]

\* "%s:%s" and "%s=%s" over the normalized parts
RenderParts(p) ==
    LET n1 == IF p.namespace # <<>> THEN p.namespace \o <<":">> \o p.name ELSE p.name
    IN  IF p.value # <<>> THEN n1 \o <<"=">> \o p.value ELSE n1

build_tag(tokens) == RenderParts(BuildParts(tokens))

split_strip(s, delimiter) ==
    IF s = <<>> THEN <<>>
    ELSE LET pieces == Split(s, delimiter)
             stripped == [i \in 1..Len(pieces) |-> Strip(pieces[i])]
         IN  SelectSeq(stripped, LAMBDA w : w # <<>>)

----------------------------------------------------------------------------
(* get_tag_parts *)

\* "[^"]+" at the start of s: its length, or 0
QuotedPart(s) ==
    IF s # <<>> /\ s[1] = "\"" /\ ClosingQuote(s) > 2 THEN ClosingQuote(s) ELSE 0

\* (?P<name>"[^"]+"|[^="]+) at the start of s: its length, or 0.  What follows
\* it in the pattern is optional, so the first alternative that matches stands
MatchName(s) ==
    IF QuotedPart(s) > 0 THEN QuotedPart(s) ELSE RunLen(s, Chars \ {"=", "\""})

\* (?:(?P<namespace>"[^"]+"|[^:="]+):)? at the start of s: the length of the
\* namespace, or 0 when the group is skipped.  The group stands only if a ':'
\* and then a name follow it
MatchNamespace(s) ==
    LET cands == (IF QuotedPart(s) > 0 THEN {QuotedPart(s)} ELSE {})
                 \cup 1..RunLen(s, Chars \ {":", "=", "\""})
        ok == {k \in cands : k < Len(s) /\ s[k + 1] = ":" /\ MatchName(Drop(s, k + 1)) > 0}
    IN  IF ok = {} THEN 0 ELSE CHOOSE k \in ok : \A j \in ok : j <= k

\* (?:=(?P<value>"[^"]+"|[^"]+))? at the start of s: the length of the value,
\* or 0 when the group is skipped
MatchValue(s) ==
    IF s # <<>> /\ s[1] = "="
    THEN LET v == Drop(s, 1)
         IN  IF QuotedPart(v) > 0 THEN QuotedPart(v) ELSE RunLen(v, Chars \ {"\""})
    ELSE 0

\* RE_TAG_PARTS.match(tag): whether it matches, and its three groups
RE_TAG_PARTS(t) ==
    LET ns  == MatchNamespace(t)
        s1  == IF ns > 0 THEN Drop(t, ns + 1) ELSE t
        nm  == MatchName(s1)
        s2  == Drop(s1, nm)
        val == MatchValue(s2)
    IN  IF nm = 0 THEN [matched |-> FALSE]
        ELSE [matched   |-> TRUE,
              namespace |-> IF ns > 0 THEN Take(t, ns) ELSE None,
              name      |-> Take(s1, nm),
              value     |-> IF val > 0 THEN SubSeq(s2, 2, val + 1) ELSE None]

\* if value and value[0] == value[-1] == '"': value[1:-1]
Unquote(v) ==
    IF v # None /\ v # <<>> /\ v[1] = "\"" /\ v[Len(v)] = "\""
    THEN SubSeq(v, 2, Len(v) - 1)
    ELSE v

\* the dictionary returned, or the error raised when match() gave None
get_tag_parts(t) ==
    LET m == RE_TAG_PARTS(t)
    IN  IF ~m.matched THEN [raised |-> "AttributeError"]
        ELSE [raised    |-> "no",
              namespace |-> Unquote(m.namespace),
              name      |-> Unquote(m.name),
              value     |-> Unquote(m.value)]

----------------------------------------------------------------------------
(* parse_tag_input *)

\* `not input`
Falsy(v) == v = None \/ v = <<>>

\* the test of the special case: none of , " : = is in the input
NoSpecialChars(s) ==
    ~Contains(s, ",") /\ ~Contains(s, "\"") /\ ~Contains(s, ":") /\ ~Contains(s, "=")

RECURSIVE WordsOf(_, _, _)
\* the values `word` has at each call of build_tag in the second loop
WordsOf(tl, delimiter, word) ==
    IF tl = <<>> THEN <<word>>
    ELSE IF Head(tl).name = delimiter
         THEN <<word>> \o WordsOf(Tail(tl), delimiter, <<>>)
         ELSE WordsOf(Tail(tl), delimiter, Append(word, Head(tl).content))

\* a delimiter choice that ignores the flag
DelimiterAlwaysSpace(saw) == "space"

\* if saw_loose_comma: delimiter = 'comma' else: delimiter = 'space'
Delimiter(saw) == IF saw THEN "comma" ELSE "space"

\* the set `words`: the non-empty results of build_tag
BuiltWords(wl) == {build_tag(wl[i]) : i \in 1..Len(wl)} \ {<<>>}

Init ==
    /\ arg \in Strings \cup {None}
    /\ input = arg
    /\ token_list = <<>>
    /\ saw_loose_comma = FALSE
    /\ wordlist = <<>>
    /\ words = <<>>
    /\ tag_parts = <<>>
    /\ tags = <<>>
    /\ edit_string = <<>>
    /\ tag = <<>>
    /\ parts = [raised |-> "not called"]
    /\ given = NotCalled
    /\ store = {}
    /\ queries = <<>>
    /\ result = NotCalled
    /\ settings = NotCalled
    /\ pc = "call"

\* if not input: return []
ParseEmpty ==
    /\ pc = "call"
    /\ Falsy(input)
    /\ words' = <<>>
    /\ pc' = "done"
    /\ UNCHANGED <<arg, input, token_list, saw_loose_comma, wordlist, tag_parts, otherVars>>

\* the special case: split on spaces, sort, return
ParseFast ==
    /\ pc = "call"
    /\ ~Falsy(input)
    /\ NoSpecialChars(input)
    /\ words' = SortSet(SeqToSet(split_strip(input, " ")))
    /\ pc' = "done"
    /\ UNCHANGED <<arg, input, token_list, saw_loose_comma, wordlist, tag_parts, otherVars>>

\* otherwise the tokenizing loop is entered
ParseTokenize ==
    /\ pc = "call"
    /\ ~Falsy(input)
    /\ ~NoSpecialChars(input)
    /\ token_list' = <<>>
    /\ saw_loose_comma' = FALSE
    /\ pc' = "tokenize"
    /\ UNCHANGED <<arg, input, wordlist, words, tag_parts, otherVars>>

\* one iteration of `while input` in which a pattern matches
TokenMatch ==
    /\ pc = "tokenize"
    /\ input # <<>>
    /\ FirstMatch(input) > 0
    /\ LET name == token_definition[FirstMatch(input)]
           k == MatchLen(name, input)
       IN  /\ token_list' = Append(token_list, [name |-> name, content |-> Take(input, k)])
           /\ input' = RestGroup(Drop(input, k))
           /\ saw_loose_comma' = (saw_loose_comma \/ name = "comma")
    /\ UNCHANGED <<arg, wordlist, words, pc, tag_parts, otherVars>>

\* one iteration of `while input` in which no pattern matches: the for loop
\* ends without a break, nothing was assigned, and the while loop goes round
TokenNoMatch ==
    /\ pc = "tokenize"
    /\ input # <<>>
    /\ FirstMatch(input) = 0
    /\ UNCHANGED vars

\* the loop has ended: choose the delimiter, build the words, sort, return
SplitWords ==
    /\ pc = "tokenize"
    /\ input = <<>>
    /\ wordlist' = WordsOf(token_list, Delimiter(saw_loose_comma), <<>>)
    /\ words' = SortSet(BuiltWords(wordlist'))
    /\ pc' = "done"
    /\ UNCHANGED <<arg, input, token_list, saw_loose_comma, tag_parts, otherVars>>

\* get_tag_filter_lookup on what parse_tag_input returned:
\* tags = [get_tag_parts(tag) for tag in tags]
LookupParts ==
    /\ pc = "done"
    /\ tag_parts' = [i \in 1..Len(words) |-> get_tag_parts(words[i])]
    /\ pc' = IF \E i \in 1..Len(words) : get_tag_parts(words[i]).raised # "no"
             THEN "raised" ELSE "looked up"
    /\ UNCHANGED <<parseVars, otherVars>>

Next ==
    \/ ParseEmpty
    \/ ParseFast
    \/ ParseTokenize
    \/ TokenMatch
    \/ TokenNoMatch
    \/ SplitWords
    \/ LookupParts

Spec == Init /\ [][Next]_vars

----------------------------------------------------------------------------
(* get_tag_parts called on any string *)

InitParts ==
    /\ tag \in Strings
    /\ parts = [raised |-> "not called"]
    /\ arg = <<>>
    /\ input = <<>>
    /\ token_list = <<>>
    /\ saw_loose_comma = FALSE
    /\ wordlist = <<>>
    /\ words = <<>>
    /\ tag_parts = <<>>
    /\ tags = <<>>
    /\ edit_string = <<>>
    /\ given = NotCalled
    /\ store = {}
    /\ queries = <<>>
    /\ result = NotCalled
    /\ settings = NotCalled
    /\ pc = "get_tag_parts"

GetTagParts ==
    /\ pc = "get_tag_parts"
    /\ parts' = get_tag_parts(tag)
    /\ pc' = IF parts'.raised = "no" THEN "returned" ELSE "raised"
    /\ UNCHANGED <<parseVars, tag_parts, tags, edit_string, tag, callVars>>

NextParts == GetTagParts

SpecParts == InitParts /\ [][NextParts]_vars

----------------------------------------------------------------------------
(* edit_string_for_tags *)

quote_chars == <<",", ":", "=">>

\* getattr(tag, field) or '', quoted only when it holds a comma
EditFieldQuotingCommas(v) ==
    LET f == IF v = None THEN <<>> ELSE v
    IN  IF Contains(f, ",")
        THEN [text |-> <<"\"">> \o f \o <<"\"">>, quoted |-> TRUE]
        ELSE [text |-> f, quoted |-> FALSE]

\* getattr(tag, field) or '', quoted when it holds one of quote_chars
EditField(v) ==
    LET f == IF v = None THEN <<>> ELSE v
    IN  IF \E i \in 1..Len(quote_chars) : Contains(f, quote_chars[i])
        THEN [text |-> <<"\"">> \o f \o <<"\"">>, quoted |-> TRUE]
        ELSE [text |-> f, quoted |-> FALSE]

\* whether the tag sets use_commas: a field that is not quoted holds a space
SetsUseCommas(t) ==
    \E v \in {t.namespace, t.name, t.value} :
        ~EditField(v).quoted /\ Contains(EditField(v).text, " ")

\* the name appended to `names` for one tag
EditName(t) ==
    LET ns == EditField(t.namespace).text
        nm == EditField(t.name).text
        vl == EditField(t.value).text
        n1 == IF ns # <<>> THEN ns \o <<":">> \o nm ELSE nm
    IN  IF vl # <<>> THEN n1 \o <<"=">> \o vl ELSE n1

RECURSIVE Join(_, _)
\* glue.join(names)
Join(glue, names) ==
    IF names = <<>> THEN <<>>
    ELSE IF Len(names) = 1 THEN names[1]
    ELSE names[1] \o glue \o Join(glue, Tail(names))

edit_string_for_tags(ts) ==
    LET names == [i \in 1..Len(ts) |-> EditName(ts[i])]
        use_commas == \E i \in 1..Len(ts) : SetsUseCommas(ts[i])
        glue == IF use_commas THEN <<",", " ">> ELSE <<" ">>
    IN  Join(glue, names)

(* A list of tags is rendered for editing and the string is submitted back:
   it is parsed and the parts of every word are looked up *)

InitEdit ==
    /\ tags \in TagListsUpTo(MaxTags, MaxTagChars)
    /\ edit_string = <<>>
    /\ arg = <<>>
    /\ input = <<>>
    /\ token_list = <<>>
    /\ saw_loose_comma = FALSE
    /\ wordlist = <<>>
    /\ words = <<>>
    /\ tag_parts = <<>>
    /\ tag = <<>>
    /\ parts = [raised |-> "not called"]
    /\ given = NotCalled
    /\ store = {}
    /\ queries = <<>>
    /\ result = NotCalled
    /\ settings = NotCalled
    /\ pc = "edit"

EditStringForTags ==
    /\ pc = "edit"
    /\ edit_string' = edit_string_for_tags(tags)
    /\ arg' = edit_string'
    /\ input' = edit_string'
    /\ pc' = "call"
    /\ UNCHANGED <<token_list, saw_loose_comma, wordlist, words, tag_parts, tags, tag, parts,
                   callVars>>

NextEdit ==
    \/ EditStringForTags
    \/ ParseEmpty
    \/ ParseFast
    \/ ParseTokenize
    \/ TokenMatch
    \/ TokenNoMatch
    \/ SplitWords
    \/ LookupParts

SpecEdit == InitEdit /\ [][NextEdit]_vars

(* edit_string_for_tags on its own, for tags whose namespace and value may be
   '' as well as None *)

\* the tag t with '' for any of its absent parts
WithEmptyParts(t) ==
    {[namespace |-> ns, name |-> t.name, value |-> v] :
        ns \in (IF t.namespace = None THEN {None, <<>>} ELSE {t.namespace}),
        v \in (IF t.value = None THEN {None, <<>>} ELSE {t.value})}

RECURSIVE EmptyVariants(_)
EmptyVariants(l) ==
    IF l = <<>> THEN {<<>>}
    ELSE {<<t>> \o r : t \in WithEmptyParts(Head(l)), r \in EmptyVariants(Tail(l))}

InitRender ==
    /\ tags \in UNION {EmptyVariants(l) : l \in TagListsUpTo(MaxTags, MaxTagChars)}
    /\ edit_string = <<>>
    /\ arg = <<>>
    /\ input = <<>>
    /\ token_list = <<>>
    /\ saw_loose_comma = FALSE
    /\ wordlist = <<>>
    /\ words = <<>>
    /\ tag_parts = <<>>
    /\ tag = <<>>
    /\ parts = [raised |-> "not called"]
    /\ given = NotCalled
    /\ store = {}
    /\ queries = <<>>
    /\ result = NotCalled
    /\ settings = NotCalled
    /\ pc = "edit"

NextRender == EditStringForTags

SpecRender == InitRender /\ [][NextRender]_vars

----------------------------------------------------------------------------
(* parse_tag_input as one call *)

\* the `while input` loop run from inp to its end: the tokens and the flag,
\* or the report that an iteration matched no pattern, after which it spins
RECURSIVE Tokenize(_, _, _)
Tokenize(inp, tl, saw) ==
    IF inp = <<>>
    THEN [hangs |-> FALSE, token_list |-> tl, saw_loose_comma |-> saw]
    ELSE IF FirstMatch(inp) = 0
    THEN [hangs |-> TRUE, token_list |-> tl, saw_loose_comma |-> saw]
    ELSE LET name == token_definition[FirstMatch(inp)]
             k == MatchLen(name, inp)
         IN  Tokenize(RestGroup(Drop(inp, k)),
                      Append(tl, [name |-> name, content |-> Take(inp, k)]),
                      saw \/ name = "comma")

\* parse_tag_input(s): the list returned, or the report that the call hangs
parse_tag_input(s) ==
    IF Falsy(s) THEN [hangs |-> FALSE, words |-> <<>>]
    ELSE IF NoSpecialChars(s)
    THEN [hangs |-> FALSE, words |-> SortSet(SeqToSet(split_strip(s, " ")))]
    ELSE LET t == Tokenize(s, <<>>, FALSE)
         IN  IF t.hangs THEN [hangs |-> TRUE, words |-> <<>>]
             ELSE [hangs |-> FALSE,
                   words |-> SortSet(BuiltWords(
                       WordsOf(t.token_list, Delimiter(t.saw_loose_comma), <<>>)))]

----------------------------------------------------------------------------
(* get_tag and get_tag_list *)

(* A Python value is a record of its type and its value: a "Tag" (a record of
   id, namespace, name and value), a "string", an "int", a "list" or a "tuple"
   (a sequence of values), a "QuerySet" (its model and the ids it selects), or
   "other" (a value of any other type, with the text force_unicode gives
   for it) *)

\* the largest integer given as a Tag id
MaxId == 3

\* the most items of a list or tuple given to get_tag_list
MaxItems == 2

\* the Tag objects of the tests: two plain names and a namespaced one
TagPool ==
    {[id |-> 1, namespace |-> None, name |-> <<"a">>, value |-> None],
     [id |-> 2, namespace |-> None, name |-> <<"b">>, value |-> None],
     [id |-> 3, namespace |-> <<"a">>, name |-> <<"b">>, value |-> None]}

\* the strings given as items of a list: names, a namespaced name, the strings
\* that name no tag, and two strings parse_tag_input handles badly
ItemStrings ==
    {<<"a">>, <<"b">>, <<"a", ":", "b">>, <<"=">>, <<":">>,
     <<"\"", "\"", ":", "\"", "\"", "=", "\"", "\"">>,
     <<"\"", "=", "a">>, <<":", "\n", "a">>}

\* the texts of the items that are no string, Tag or integer
OtherTexts == {<<"a">>, <<"b">>}

Value(type, values) == [type : {type}, value : values]

Items ==
    Value("string", ItemStrings) \cup Value("Tag", TagPool)
        \cup Value("int", 1..MaxId) \cup Value("other", OtherTexts)

RECURSIVE ItemListsOfLen(_)
ItemListsOfLen(n) ==
    IF n = 0 THEN {<<>>}
    ELSE {Append(l, item) : l \in ItemListsOfLen(n - 1), item \in Items}

ItemLists == UNION {ItemListsOfLen(n) : n \in 0..MaxItems}

QuerySets == [model : {"Tag", "Article"}, ids : SUBSET (1..MaxId)]

\* what get_tag and get_tag_list are called with
Givens ==
    Value("Tag", TagPool) \cup Value("QuerySet", QuerySets)
        \cup Value("string", Strings \cup ItemStrings)
        \cup Value("list", ItemLists) \cup Value("tuple", ItemLists)
        \cup Value("int", 1..MaxId) \cup Value("other", OtherTexts)

\* the records of Tag.objects that have the field values kw
Matching(kw) == {t \in store : \A f \in DOMAIN kw : t[f] = kw[f]}

\* Tag.objects.get(**kw)
ObjectsGet(kw) ==
    LET m == Matching(kw)
    IN  IF m = {} THEN [raised |-> "DoesNotExist"]
        ELSE IF Cardinality(m) > 1 THEN [raised |-> "MultipleObjectsReturned"]
        ELSE [raised |-> "no", tag |-> CHOOSE t \in m : TRUE]

\* what a call that ended made: the error raised if any, the value returned,
\* the lookups
Outcome(raised, type, value, q) ==
    [hangs |-> FALSE, raised |-> raised, type |-> type, value |-> value, queries |-> q]

\* the lookup of get_tag: the record found, or None after Tag.DoesNotExist;
\* any other error leaves the function
GetOrNone(kw) ==
    LET r == ObjectsGet(kw)
        q == <<[op |-> "get", ids |-> {t.id : t \in Matching(kw)}]>>
    IN  IF r.raised = "no" THEN Outcome("no", "Tag", r.tag, q)
        ELSE IF r.raised = "DoesNotExist" THEN Outcome("no", "NoneType", None, q)
        ELSE Outcome(r.raised, "exception", None, q)

\* Tag.objects.get(**get_tag_parts(tag)): the AttributeError of get_tag_parts
\* is not a Tag.DoesNotExist and leaves the function
GetByParts(p) ==
    IF p.raised # "no" THEN Outcome(p.raised, "exception", None, <<>>)
    ELSE GetOrNone([namespace |-> p.namespace, name |-> p.name, value |-> p.value])

get_tag(g) ==
    IF g.type = "Tag" THEN Outcome("no", "Tag", g.value, <<>>)
    ELSE IF g.type = "string" THEN GetByParts(get_tag_parts(g.value))
    ELSE IF g.type = "int" THEN GetOrNone([id |-> g.value])
    ELSE Outcome("no", "NoneType", None, <<>>)

\* tag_parsed after the calls of parse_tag_input have returned `calls`: the
\* union of the lists, or the report that one of the calls hangs
ParsedOf(calls) ==
    [hangs |-> \E c \in calls : c.hangs,
     words |-> UNION {SeqToSet(c.words) : c \in calls}]

\* for tag in tags: tag_parsed.update(parse_tag_input(tag))
ParsedSet(texts) == ParsedOf({parse_tag_input(texts[i]) : i \in 1..Len(texts)})

\* the Q object built from the dictionaries of get_tag_parts: the set of plain
\* names and the set of part dictionaries it selects by, or None; the
\* AttributeError of get_tag_parts leaves the function
QOf(dicts) ==
    IF \E d \in dicts : d.raised # "no"
    THEN [hangs |-> FALSE, raised |-> "AttributeError"]
    ELSE [hangs     |-> FALSE,
          raised    |-> "no",
          none      |-> dicts = {},
          tag_names |-> {d.name : d \in {e \in dicts : Falsy(e.namespace) /\ Falsy(e.value)}},
          tag_parts |-> {d \in dicts : ~(Falsy(d.namespace) /\ Falsy(d.value))}]

\* tags = [get_tag_parts(tag) for tag in tags], and the rest
LookupOf(parsed) ==
    IF parsed.hangs THEN [hangs |-> TRUE]
    ELSE QOf({get_tag_parts(w) : w \in parsed.words})

\* get_tag_filter_lookup: `tags` is a string, or the list of the texts.  The
\* words of a string are parsed as those of a list of that one string are;
\* the order of the words is not kept, since a Q object selects by sets
get_tag_filter_lookup(isString, given_tags) ==
    LookupOf(ParsedSet(IF isString THEN <<given_tags>> ELSE given_tags))

\* Tag.objects.filter(q): the ids of the records selected
ObjectsFilter(q) ==
    {t.id : t \in {t \in store :
        \/ /\ t.name \in q.tag_names
           /\ t.namespace = None
           /\ t.value = None
        \/ \E d \in q.tag_parts :
            /\ t.namespace = d.namespace
            /\ t.name = d.name
            /\ t.value = d.value}}

TagQuerySet(ids) == [model |-> "Tag", ids |-> ids]

\* `q = get_tag_filter_lookup(...)`, then [] or Tag.objects.filter(q)
FilterBy(look) ==
    IF look.hangs THEN [hangs |-> TRUE]
    ELSE IF look.raised # "no" THEN Outcome(look.raised, "exception", None, <<>>)
    ELSE IF look.none THEN Outcome("no", "list", <<>>, <<>>)
    ELSE Outcome("no", "QuerySet", TagQuerySet(ObjectsFilter(look)),
                 <<[op |-> "filter", ids |-> ObjectsFilter(look)]>>)

\* the set `contents` after the loop over the items
Contents(items) ==
    {items[i].type : i \in 1..Len(items)} \cap {"string", "Tag", "int"}

InvalidList ==
    <<"If a list or tuple of tags is provided, they must all be tag names, ",
      "Tag objects or Tag ids.">>

InvalidInput == <<"The tag input given was invalid.">>

get_tag_list(g) ==
    IF g.type = "Tag" THEN Outcome("no", "list", <<g>>, <<>>)
    ELSE IF g.type = "QuerySet" /\ g.value.model = "Tag"
    THEN Outcome("no", "QuerySet", g.value, <<>>)
    ELSE IF g.type = "string" THEN FilterBy(get_tag_filter_lookup(TRUE, g.value))
    ELSE IF g.type \in {"list", "tuple"}
    THEN IF Len(g.value) = 0 THEN Outcome("no", g.type, g.value, <<>>)
         ELSE IF Cardinality(Contents(g.value)) = 1
         THEN IF "string" \in Contents(g.value)
              THEN FilterBy(get_tag_filter_lookup(FALSE,
                       [i \in 1..Len(g.value) |-> g.value[i].value]))
              ELSE IF "Tag" \in Contents(g.value)
              THEN Outcome("no", g.type, g.value, <<>>)
              ELSE LET ids == {t.id : t \in {t \in store :
                                  \E i \in 1..Len(g.value) :
                                      /\ g.value[i].type = "int"
                                      /\ g.value[i].value = t.id}}
                   IN  Outcome("no", "QuerySet", TagQuerySet(ids),
                               <<[op |-> "filter", ids |-> ids]>>)
         ELSE Outcome("ValueError", "exception", InvalidList, <<>>)
    ELSE Outcome("ValueError", "exception", InvalidInput, <<>>)

InitLookup ==
    /\ given \in Givens
    /\ store \in SUBSET TagPool
    /\ queries = <<>>
    /\ result = NotCalled
    /\ settings = NotCalled
    /\ arg = <<>>
    /\ input = <<>>
    /\ token_list = <<>>
    /\ saw_loose_comma = FALSE
    /\ wordlist = <<>>
    /\ words = <<>>
    /\ tag_parts = <<>>
    /\ tags = <<>>
    /\ edit_string = <<>>
    /\ tag = <<>>
    /\ parts = [raised |-> "not called"]
    /\ pc = "lookup"

GetTag ==
    /\ pc = "lookup"
    /\ \E o \in {get_tag(given)} :
        /\ result' = [raised |-> o.raised, type |-> o.type, value |-> o.value]
        /\ queries' = o.queries
    /\ pc' = "get_tag"
    /\ UNCHANGED <<parseVars, tag_parts, tags, edit_string, tag, parts, given, store, settings>>

GetTagList ==
    /\ pc = "lookup"
    /\ \E o \in {get_tag_list(given)} :
        /\ ~o.hangs
        /\ result' = [raised |-> o.raised, type |-> o.type, value |-> o.value]
        /\ queries' = o.queries
    /\ pc' = "get_tag_list"
    /\ UNCHANGED <<parseVars, tag_parts, tags, edit_string, tag, parts, given, store, settings>>

\* the call in which parse_tag_input never returns
GetTagListHangs ==
    /\ pc = "lookup"
    /\ \E o \in {get_tag_list(given)} : o.hangs
    /\ pc' = "hangs"
    /\ UNCHANGED <<parseVars, tag_parts, otherVars>>

NextLookup ==
    \/ GetTag
    \/ GetTagList
    \/ GetTagListHangs

SpecLookup == InitLookup /\ [][NextLookup]_vars

----------------------------------------------------------------------------
(* check_tag_length *)

\* the largest value of a length limit of the settings
MaxLimit == 4

\* the most characters of one part of the dictionary given to check_tag_length
MaxPartLen == 3

\* a part given to check_tag_length: None, or a string of at most n characters
LengthParts(n) == {None} \cup UNION {{[i \in 1..k |-> "a"]} : k \in 0..n}

\* len(part or '')
PartLength(v) == IF Falsy(v) THEN 0 ELSE Len(v)

\* `>=` in the place of `>`
AtOrOverLimit(length, limit) == length >= limit

\* if length > limit
OverLimit(length, limit) == length > limit

\* the four tests as check_tag_length would make them with the total last
PartsFirstChecks(tp, st) ==
    <<[message |-> "Tag's name part is too long.", dimension |-> "name",
       length |-> PartLength(tp.name), limit |-> st.MAX_TAG_NAME_LENGTH],
      [message |-> "Tag's namespace part is too long.", dimension |-> "namespace",
       length |-> PartLength(tp.namespace), limit |-> st.MAX_TAG_NAMESPACE_LENGTH],
      [message |-> "Tag's value part is too long.", dimension |-> "value",
       length |-> PartLength(tp.value), limit |-> st.MAX_TAG_VALUE_LENGTH],
      [message |-> "Tag is too long.", dimension |-> "tag",
       length |-> PartLength(tp.name) + PartLength(tp.namespace) + PartLength(tp.value),
       limit |-> st.MAX_TAG_LENGTH]>>

\* the four tests with those of the namespace and the name exchanged
NamespaceFirstChecks(tp, st) ==
    <<[message |-> "Tag is too long.", dimension |-> "tag",
       length |-> PartLength(tp.name) + PartLength(tp.namespace) + PartLength(tp.value),
       limit |-> st.MAX_TAG_LENGTH],
      [message |-> "Tag's namespace part is too long.", dimension |-> "namespace",
       length |-> PartLength(tp.namespace), limit |-> st.MAX_TAG_NAMESPACE_LENGTH],
      [message |-> "Tag's name part is too long.", dimension |-> "name",
       length |-> PartLength(tp.name), limit |-> st.MAX_TAG_NAME_LENGTH],
      [message |-> "Tag's value part is too long.", dimension |-> "value",
       length |-> PartLength(tp.value), limit |-> st.MAX_TAG_VALUE_LENGTH]>>

\* the four `if` statements of check_tag_length, in the order of the code:
\* what each raises with, the length it tests and the limit it tests against
LengthChecks(tp, st) ==
    <<[message |-> "Tag is too long.", dimension |-> "tag",
       length |-> PartLength(tp.name) + PartLength(tp.namespace) + PartLength(tp.value),
       limit |-> st.MAX_TAG_LENGTH],
      [message |-> "Tag's name part is too long.", dimension |-> "name",
       length |-> PartLength(tp.name), limit |-> st.MAX_TAG_NAME_LENGTH],
      [message |-> "Tag's namespace part is too long.", dimension |-> "namespace",
       length |-> PartLength(tp.namespace), limit |-> st.MAX_TAG_NAMESPACE_LENGTH],
      [message |-> "Tag's value part is too long.", dimension |-> "value",
       length |-> PartLength(tp.value), limit |-> st.MAX_TAG_VALUE_LENGTH]>>

\* the first `if` whose test holds raises; when none holds the function ends
\* and None is returned
FirstRaise(checks) ==
    LET failed == {k \in 1..Len(checks) : OverLimit(checks[k].length, checks[k].limit)}
    IN  IF failed = {} THEN [raised |-> "no", type |-> "NoneType", value |-> None]
        ELSE LET k == CHOOSE j \in failed : \A i \in failed : j <= i
             IN  [raised |-> "ValueError",
                  type   |-> "exception",
                  value  |-> <<checks[k].message, checks[k].dimension, checks[k].limit>>]

check_tag_length(tp, st) == FirstRaise(LengthChecks(tp, st))

InitLength ==
    /\ given \in [namespace : LengthParts(MaxPartLen), name : LengthParts(MaxPartLen),
                  value : LengthParts(MaxPartLen)]
    /\ settings \in [MAX_TAG_LENGTH : 1..MaxLimit, MAX_TAG_NAME_LENGTH : 1..MaxLimit,
                     MAX_TAG_NAMESPACE_LENGTH : 1..MaxLimit,
                     MAX_TAG_VALUE_LENGTH : 1..MaxLimit]
    /\ result = NotCalled
    /\ store = {}
    /\ queries = <<>>
    /\ arg = <<>>
    /\ input = <<>>
    /\ token_list = <<>>
    /\ saw_loose_comma = FALSE
    /\ wordlist = <<>>
    /\ words = <<>>
    /\ tag_parts = <<>>
    /\ tags = <<>>
    /\ edit_string = <<>>
    /\ tag = <<>>
    /\ parts = [raised |-> "not called"]
    /\ pc = "check_tag_length"

CheckTagLength ==
    /\ pc = "check_tag_length"
    /\ result' = check_tag_length(given, settings)
    /\ pc' = IF result'.raised = "no" THEN "checked" ELSE "too long"
    /\ UNCHANGED <<parseVars, tag_parts, tags, edit_string, tag, parts, given, store,
                   queries, settings>>

NextLength == CheckTagLength

SpecLength == InitLength /\ [][NextLength]_vars

----------------------------------------------------------------------------
(* build_tag and normalize_tag_part on their own *)

\* the most tokens of a word given to build_tag
MaxWordTokens == 5

\* the tokens of a word: the two separators, two runs of plain characters, an
\* empty quoted string, a quoted colon, and a space (a space token is part of
\* a word when the comma delimits)
WordTokens ==
    {<<":">>, <<"=">>, <<"a">>, <<"b">>, <<"\"", "\"">>, <<"\"", ":", "\"">>, <<" ">>}

RECURSIVE WordsOfLen(_)
WordsOfLen(n) ==
    IF n = 0 THEN {<<>>}
    ELSE {Append(w, t) : w \in WordsOfLen(n - 1), t \in WordTokens}

Words == UNION {WordsOfLen(n) : n \in 0..MaxWordTokens}

InitBuild ==
    /\ given \in Value("list", Words) \cup Value("string", Strings)
    /\ result = NotCalled
    /\ parts = [raised |-> "not called"]
    /\ arg = <<>>
    /\ input = <<>>
    /\ token_list = <<>>
    /\ saw_loose_comma = FALSE
    /\ wordlist = <<>>
    /\ words = <<>>
    /\ tag_parts = <<>>
    /\ tags = <<>>
    /\ edit_string = <<>>
    /\ tag = <<>>
    /\ store = {}
    /\ queries = <<>>
    /\ settings = NotCalled
    /\ pc = "build"

\* build_tag(tokens): `parts` is its namespace, name and value after lines
\* 124-126, `result` the string returned
BuildTag ==
    /\ pc = "build"
    /\ given.type = "list"
    /\ \E p \in {BuildParts(given.value)} :
        /\ parts' = p
        /\ result' = [raised |-> "no", type |-> "string", value |-> RenderParts(p)]
    /\ pc' = "build_tag"
    /\ UNCHANGED <<parseVars, tag_parts, tags, edit_string, tag, given, store, queries,
                   settings>>

\* normalize_tag_part(input)
NormalizeTagPart ==
    /\ pc = "build"
    /\ given.type = "string"
    /\ result' = [raised |-> "no", type |-> "string",
                  value |-> normalize_tag_part(given.value)]
    /\ pc' = "normalize_tag_part"
    /\ UNCHANGED <<parseVars, tag_parts, tags, edit_string, tag, parts, given, store,
                   queries, settings>>

NextBuild == BuildTag \/ NormalizeTagPart

SpecBuild == InitBuild /\ [][NextBuild]_vars

----------------------------------------------------------------------------
(* calculate_cloud *)

LOGARITHMIC == 1

LINEAR == 2

\* the largest `steps` of the range tried
MaxSteps == 4

\* the largest `count` of the range tried
MaxCount == 6

\* the most records in the list given to calculate_cloud
MaxCloudTags == 2

\* the values of `steps`: a range around the default 4, none and a negative
\* number of steps, and a number of steps that 16 - 1 does not divide evenly
StepValues == (-1)..MaxSteps \cup {11}

\* the values of `count`
CountValues == 1..MaxCount \cup {16}

\* the values of `distribution`: the two algorithms and two other values
Distributions == {LOGARITHMIC, LINEAR, 0, 3}

\* the Tag record at position k of the list given: records are told apart by
\* their id, and every second one has a namespace
TagAt(k) ==
    [id |-> k, namespace |-> IF k % 2 = 0 THEN <<"a">> ELSE None,
     name |-> <<"b">>, value |-> None]

\* the attributes of the record at position k: its Tag fields, its count, the
\* font_size attribute (0: the object has none; 1: one left by an earlier
\* call) and whether the call set `font_set` while handling the record
CloudRecords(k) ==
    [id : {k}, namespace : {TagAt(k).namespace}, name : {TagAt(k).name},
     value : {TagAt(k).value}, count : CountValues, font_size : {0, 1},
     font_set : {FALSE}]

RECURSIVE CloudListsOfLen(_)
CloudListsOfLen(n) ==
    IF n = 0 THEN {<<>>}
    ELSE {Append(l, r) : l \in CloudListsOfLen(n - 1), r \in CloudRecords(n)}

CloudLists == UNION {CloudListsOfLen(n) : n \in 0..MaxCloudTags}

(* Python floats are IEEE-754 binary64 numbers.  A non-negative one is       *)
(* modelled exactly, as [int, frac]: its integer part and the bits of its    *)
(* fraction, so that its value is int + frac[1]/2 + frac[2]/4 + ...          *)

\* the bits of the significand of a binary64 number
Precision == 53

\* the fraction bits a quotient is carried to before it is rounded
GuardBits == Precision + 11

RECURSIVE BitLength(_)
BitLength(n) == IF n = 0 THEN 0 ELSE 1 + BitLength(n \div 2)

RECURSIVE LeadingZeros(_, _)
LeadingZeros(frac, k) ==
    IF k > Len(frac) \/ frac[k] = 1 THEN k - 1 ELSE LeadingZeros(frac, k + 1)

\* bits[1..n] plus one unit in place n
RECURSIVE Increment(_, _)
Increment(bits, n) ==
    IF n = 0 THEN [carry |-> 1, bits |-> bits]
    ELSE IF bits[n] = 0 THEN [carry |-> 0, bits |-> [bits EXCEPT ![n] = 1]]
    ELSE Increment([bits EXCEPT ![n] = 0], n - 1)

\* int + 0.bits once the increment r of the bits has been carried out
Carried(int, r) == [int |-> int + r.carry, frac |-> r.bits]

\* the binary64 number nearest to int + 0.frac (+ something below the last
\* bit when `sticky`), ties to the even significand
RoundToNearest(int, frac, sticky) ==
    LET keep == IF int > 0 THEN Precision - BitLength(int)
                ELSE LeadingZeros(frac, 1) + Precision
    IN  IF Len(frac) <= keep THEN [int |-> int, frac |-> frac]
        ELSE LET rest == sticky \/ \E k \in (keep + 2)..Len(frac) : frac[k] = 1
                 odd == IF keep = 0 THEN int % 2 = 1 ELSE frac[keep] = 1
             IN  IF frac[keep + 1] = 1 /\ (rest \/ odd)
                 THEN Carried(int, Increment(SubSeq(frac, 1, keep), keep))
                 ELSE [int |-> int, frac |-> SubSeq(frac, 1, keep)]

\* the first n bits of the fraction r / b (r < b) after `bits`, and what remains
RECURSIVE DivBits(_, _, _, _)
DivBits(r, b, n, bits) ==
    IF n = 0 THEN [bits |-> bits, rem |-> r]
    ELSE DivBits((2 * r) % b, b, n - 1, Append(bits, (2 * r) \div b))

\* 0.bits[1..n] times i, the places after n being done already
RECURSIVE MulBits(_, _, _, _)
MulBits(bits, i, n, carry) ==
    IF n = 0 THEN [carry |-> carry, bits |-> bits]
    ELSE MulBits([bits EXCEPT ![n] = (bits[n] * i + carry) % 2], i, n - 1,
                 (bits[n] * i + carry) \div 2)

\* a / float(b), for integers a >= 0 and b > 0
Quotient(int, d) == RoundToNearest(int, d.bits, d.rem # 0)

FloatDiv(a, b) == Quotient(a \div b, DivBits(a % b, b, GuardBits, <<>>))

\* i * x, for an integer i >= 0 and a float x
Product(int, m) == RoundToNearest(int + m.carry, m.bits, FALSE)

FloatMul(i, x) == Product(i * x.int, MulBits(x.frac, i, Len(x.frac), 0))

\* n + x, for an integer n >= 0 and a float x
FloatAdd(n, x) == RoundToNearest(n + x.int, x.frac, FALSE)

\* the thresholds, given delta
ThresholdsBy(min_weight, delta, steps) ==
    [i \in 1..steps |-> FloatAdd(min_weight, FloatMul(i, delta))]

\* _calculate_thresholds, for steps other than 0 (float division by zero
\* raises ZeroDivisionError); range(1, steps + 1) is empty when steps < 0
_calculate_thresholds(min_weight, max_weight, steps) ==
    IF steps < 0 THEN <<>>
    ELSE ThresholdsBy(min_weight, FloatDiv(max_weight - min_weight, steps), steps)

\* math.log(n), in millionths
MicroLog(n) ==
    CASE n = 1 -> 0
        [] n = 2 -> 693147
        [] n = 3 -> 1098612
        [] n = 4 -> 1386294
        [] n = 5 -> 1609438
        [] n = 6 -> 1791759
        [] n = 7 -> 1945910
        [] n = 8 -> 2079442
        [] n = 9 -> 2197225
        [] n = 10 -> 2302585
        [] n = 11 -> 2397895
        [] n = 12 -> 2484907
        [] n = 13 -> 2564949
        [] n = 14 -> 2639057
        [] n = 15 -> 2708050
        [] n = 16 -> 2772589
        [] n = 17 -> 2833213
        [] n = 18 -> 2890372
        [] n = 19 -> 2944439
        [] n = 20 -> 2995732
        [] n = 21 -> 3044522
        [] n = 22 -> 3091042
        [] n = 23 -> 3135494
        [] n = 24 -> 3178054

\* what _calculate_tag_weight does: it returns `weight` itself, or the
\* logarithmic weight, or it raises ValueError
_calculate_tag_weight(max_weight, distribution) ==
    IF distribution = LINEAR \/ max_weight = 1 THEN "weight"
    ELSE IF distribution = LOGARITHMIC THEN "log"
    ELSE "ValueError"

\* where x lies with respect to y, numbers within `margin` of each other
\* being taken for equal
Side(x, y, margin) ==
    IF x + margin < y THEN "below" ELSE IF y + margin < x THEN "above" ELSE "on"

\* where the real number log(count) * max_weight / log(max_weight) lies with
\* respect to min_weight + i * (max_weight - min_weight) / steps, for
\* max_weight > 1 and steps > 0: both sides are multiplied by
\* steps * log(max_weight), and the margin is the error of MicroLog in them.
\* log(1) is 0.0 and the weight of count 1 is 0.0 exactly.
LogSide(count, min_weight, max_weight, steps, i) ==
    IF count = 1 THEN "below"
    ELSE Side(MicroLog(count) * max_weight * steps,
              (min_weight * steps + i * (max_weight - min_weight)) * MicroLog(max_weight),
              max_weight * steps)

\* `tag_weight <= thresholds[i + 1]` for the 1-based bucket i.  An integer is
\* at most a float when it is at most its integer part.  math.log is the C
\* library's and is not correctly rounded: where the real weight lies on
\* the real threshold the comparison of the two floats goes either way, and
\* `above` is the set of counts whose weight came out above its real value.
WithinThreshold(kind, count, i, thresholds, ws, above) ==
    IF kind = "weight" THEN count <= thresholds[i].int
    ELSE \E side \in {LogSide(count, ws.min_weight, ws.max_weight, ws.steps, i)} :
            side = "below" \/ (side = "on" /\ count \notin above)

\* the buckets whose threshold the weight does not exceed
Buckets(kind, count, thresholds, ws, above) ==
    {i \in 1..ws.steps : WithinThreshold(kind, count, i, thresholds, ws, above)}

Counts(ts) == {ts[k].count : k \in 1..Len(ts)}

Lowest(S) == CHOOSE n \in S : \A m \in S : n <= m

Highest(S) == CHOOSE n \in S : \A m \in S : n >= m

\* lines 381-386 for one record if the bucket went into `count` as well
SetFontSizeAndCount(t, buckets) ==
    IF buckets = {} THEN [t EXCEPT !.font_set = FALSE]
    ELSE [t EXCEPT !.font_size = Lowest(buckets), !.count = Lowest(buckets),
                   !.font_set = TRUE]

\* lines 381-386 for one record: font_size becomes the first bucket whose
\* threshold the weight does not exceed, and is left alone when there is none
SetFontSize(t, buckets) ==
    IF buckets = {} THEN [t EXCEPT !.font_set = FALSE]
    ELSE [t EXCEPT !.font_size = Lowest(buckets), !.font_set = TRUE]

\* the counts of the list whose real logarithmic weight lies on a threshold
OnThreshold(ts, ws) ==
    {t.count : t \in {ts[k] : k \in 1..Len(ts)}} \cap
    {c \in CountValues : \E i \in 1..ws.steps :
        LogSide(c, ws.min_weight, ws.max_weight, ws.steps, i) = "on"}

\* min_weight, max_weight and steps of a call
Weights(ts, steps) ==
    [min_weight |-> Lowest(Counts(ts)), max_weight |-> Highest(Counts(ts)),
     steps |-> steps]

\* lines 380-386, given the thresholds and what _calculate_tag_weight does:
\* the ValueError is raised for the first record, before any assignment
CloudLoop(ts, kind, thresholds, ws, above) ==
    IF kind = "ValueError" THEN ts
    ELSE [k \in 1..Len(ts) |->
             SetFontSize(ts[k], Buckets(kind, ts[k].count, thresholds, ws, above))]

CloudOutcome(raised, value, ts) == [raised |-> raised, value |-> value, tags |-> ts]

\* the non-empty case if a font_size were written before the distribution is
\* found invalid
CloudOfWritingBeforeRaising(ts, ws, kind, distribution, above) ==
    IF ws.steps = 0 THEN CloudOutcome("ZeroDivisionError", <<>>, ts)
    ELSE IF kind = "ValueError"
    THEN CloudOutcome("ValueError", <<distribution>>,
                      [k \in 1..Len(ts) |->
                          IF k = 1 THEN [ts[k] EXCEPT !.font_size = ws.steps] ELSE ts[k]])
    ELSE CloudOutcome("no", <<>>,
            CloudLoop(ts, kind,
                      _calculate_thresholds(ws.min_weight, ws.max_weight, ws.steps),
                      ws, above))

CloudOf(ts, ws, kind, distribution, above) ==
    IF ws.steps = 0 THEN CloudOutcome("ZeroDivisionError", <<>>, ts)
    ELSE IF kind = "ValueError" THEN CloudOutcome("ValueError", <<distribution>>, ts)
    ELSE CloudOutcome("no", <<>>,
            CloudLoop(ts, kind,
                      _calculate_thresholds(ws.min_weight, ws.max_weight, ws.steps),
                      ws, above))

\* calculate_cloud: the error raised if any, and the list `tags` as the call
\* leaves it (the list returned is the list given: line 387)
calculate_cloud(ts, steps, distribution, above) ==
    IF Len(ts) > 0
    THEN CloudOf(ts, Weights(ts, steps),
                 _calculate_tag_weight(Highest(Counts(ts)), distribution),
                 distribution, above)
    ELSE CloudOutcome("no", <<>>, ts)

\* the counts whose comparison may go either way in a call
Undecided(g) ==
    IF /\ Len(g.tags) > 0
       /\ g.steps > 0
       /\ _calculate_tag_weight(Highest(Counts(g.tags)), g.distribution) = "log"
    THEN OnThreshold(g.tags, Weights(g.tags, g.steps))
    ELSE {}

InitCloud ==
    /\ given \in [tags : CloudLists, steps : StepValues, distribution : Distributions]
    /\ tags = given.tags
    /\ result = NotCalled
    /\ store = {}
    /\ queries = <<>>
    /\ settings = NotCalled
    /\ arg = <<>>
    /\ input = <<>>
    /\ token_list = <<>>
    /\ saw_loose_comma = FALSE
    /\ wordlist = <<>>
    /\ words = <<>>
    /\ tag_parts = <<>>
    /\ edit_string = <<>>
    /\ tag = <<>>
    /\ parts = [raised |-> "not called"]
    /\ pc = "calculate_cloud"

\* calculate_cloud(tags, steps, distribution) returns normally
CalculateCloud ==
    /\ pc = "calculate_cloud"
    /\ \E above \in SUBSET Undecided(given) :
        \E o \in {calculate_cloud(tags, given.steps, given.distribution, above)} :
            /\ o.raised = "no"
            /\ tags' = o.tags
            /\ result' = [raised |-> "no", type |-> "list", value |-> o.tags]
            /\ pc' = "cloud"
    /\ UNCHANGED <<parseVars, tag_parts, edit_string, tag, parts, given, store,
                   queries, settings>>

\* calculate_cloud(tags, steps, distribution) raises
CalculateCloudRaises ==
    /\ pc = "calculate_cloud"
    /\ \E o \in {calculate_cloud(tags, given.steps, given.distribution, {})} :
            /\ o.raised # "no"
            /\ tags' = o.tags
            /\ result' = [raised |-> o.raised, type |-> "exception", value |-> o.value]
            /\ pc' = "raised"
    /\ UNCHANGED <<parseVars, tag_parts, edit_string, tag, parts, given, store,
                   queries, settings>>

NextCloud == CalculateCloud \/ CalculateCloudRaises

SpecCloud == InitCloud /\ [][NextCloud]_vars

----------------------------------------------------------------------------
(* Properties of parse_tag_input, checked under Spec *)

\* parse_tag_input has returned
Returned == pc \in {"done", "looked up", "raised"}

\* the call took the tokenizing path
Tokenized == ~Falsy(arg) /\ ~NoSpecialChars(arg)

\* the call took the special case
TookFastPath == ~Falsy(arg) /\ NoSpecialChars(arg)

\* the indices of the words that build_tag did not turn into ''
Kept == {i \in 1..Len(wordlist) : build_tag(wordlist[i]) # <<>>}

\* C1: every string returned denotes a tag whose name part is not empty: a
\* word whose name normalizes to '' is discarded whatever its namespace and
\* value are.
C1_NameNeverEmpty ==
    Returned => \A i \in Kept : BuildParts(wordlist[i]).name # <<>>

\* C2: in every iteration of the tokenizing loop one of the four patterns
\* matches the remaining input and consumes at least one character of it, so
\* that the loop ends.
C2_EveryIterationConsumes ==
    (pc = "tokenize" /\ input # <<>>) =>
        /\ FirstMatch(input) > 0
        /\ Len(RestGroup(Drop(input, MatchLen(token_definition[FirstMatch(input)], input))))
              < Len(input)

\* C4: the list returned is in ascending order and holds no string twice, on
\* the special-case path and on the tokenizing path.
C4_SortedUnique ==
    Returned => \A i, j \in 1..Len(words) : i < j => StrLess(words[i], words[j])

\* build_tag was called with words in an order that is not the sorted one,
\* and two tags were returned
C4_Witness ==
    /\ pc = "done"
    /\ Tokenized
    /\ Len(words) = 2
    /\ \E i, j \in Kept : i < j /\ StrLess(build_tag(wordlist[j]), build_tag(wordlist[i]))

\* the input is made of double quotes only, of commas only or of '=' only, or
\* it is a lone ':': every word of it normalizes to the empty string
OnlyEmptyWords(s) ==
    \/ \E c \in {"\"", ",", "="} : \A i \in 1..Len(s) : s[i] = c
    \/ s = <<":">>

\* C5: parse_tag_input never fails: whatever it is given, it returns a list
\* (from every state before the return the call can take a step that brings
\* it closer), and the list is empty when every word normalizes to ''.
C5_AlwaysReturnsAList ==
    /\ Returned \/ pc = "call" \/ (pc = "tokenize" /\ (input = <<>> \/ FirstMatch(input) > 0))
    /\ (Returned /\ (Falsy(arg) \/ OnlyEmptyWords(arg))) => words = <<>>

RECURSIVE WhitespaceRuns(_)
\* the maximal runs of non-whitespace characters of s, in order
WhitespaceRuns(s) ==
    LET t == Drop(s, RunLen(s, Whitespace))
        k == RunLen(t, Chars \ Whitespace)
    IN  IF t = <<>> THEN <<>> ELSE <<Take(t, k)>> \o WhitespaceRuns(Drop(t, k))

\* C6: for an input with none of , " : = the list returned is the sorted list
\* of the distinct maximal non-whitespace runs of the input.
C6_FastPathSplitsOnWhitespace ==
    (Returned /\ TookFastPath) =>
        /\ SeqToSet(words) = SeqToSet(WhitespaceRuns(arg))
        /\ Len(words) = Cardinality(SeqToSet(WhitespaceRuns(arg)))

\* the names of the tokens, and how many of them have a given name
CountTokens(name) == Cardinality({i \in 1..Len(token_list) : token_list[i].name = name})

\* the index in token_list of the k-th token named d; 0 and Len + 1 stand for
\* the two ends
NthToken(d, k) ==
    IF k = 0 THEN 0
    ELSE IF k > CountTokens(d) THEN Len(token_list) + 1
    ELSE CHOOSE i \in 1..Len(token_list) :
            /\ token_list[i].name = d
            /\ Cardinality({j \in 1..(i - 1) : token_list[j].name = d}) = k - 1

\* the contents of the tokens strictly between two indices
ContentsBetween(lo, hi) == [i \in 1..(hi - lo - 1) |-> token_list[lo + i].content]

InQuotedRun(s, i) ==
    /\ Cardinality({j \in 1..(i - 1) : s[j] = "\""}) % 2 = 1
    /\ \E j \in (i + 1)..Len(s) : s[j] = "\""

QuotedCommas(s) == {i \in 1..Len(s) : s[i] = "," /\ InQuotedRun(s, i)}

LooseCommas(s) == {i \in 1..Len(s) : s[i] = "," /\ ~InQuotedRun(s, i)}

\* the number of commas in the words handed to build_tag
CommasInWords ==
    LET all == Concat(Concat(wordlist))
    IN  Cardinality({i \in 1..Len(all) : all[i] = ","})

\* C8: a comma inside a completed double-quoted run never delimits and never
\* switches to comma mode: comma mode is taken exactly when a comma stands
\* outside the completed quoted runs, the commas of the words are exactly the
\* quoted ones and a tag returned holds a comma exactly when the input has a
\* quoted one, the only tokens that hold a comma are comma tokens and quoted
\* runs, and with no loose comma the words are the runs between space tokens.
C8_QuotedCommaNeverDelimits ==
    (Returned /\ Tokenized) =>
        /\ saw_loose_comma <=> LooseCommas(arg) # {}
        /\ CommasInWords = Cardinality(QuotedCommas(arg))
        /\ (\E k \in 1..Len(words) : Contains(words[k], ",")) <=> QuotedCommas(arg) # {}
        /\ \A i \in 1..Len(token_list) :
              LET c == token_list[i].content
              IN  Contains(c, ",") =>
                    \/ token_list[i].name = "comma"
                    \/ token_list[i].name = "part" /\ c[1] = "\"" /\ c[Len(c)] = "\""
        /\ LooseCommas(arg) = {} => Len(wordlist) = CountTokens("space") + 1

\* an input whose only comma is inside a completed quoted run and that holds
\* a space token: the quoted comma is the tag returned
C8_Witness ==
    /\ pc = "done"
    /\ QuotedCommas(arg) # {}
    /\ LooseCommas(arg) = {}
    /\ CountTokens("space") > 0
    /\ Len(wordlist) = 2
    /\ words = << <<",">> >>

\* what get_tag_parts is to return for the normalized parts p of build_tag:
\* the quotes removed, an absent part reported as None
ExpectedParts(p) ==
    [raised    |-> "no",
     namespace |-> IF p.namespace = <<>> THEN None ELSE RemoveQuotes(p.namespace),
     name      |-> RemoveQuotes(p.name),
     value     |-> IF p.value = <<>> THEN None ELSE RemoveQuotes(p.value)]

\* a triple rendered in canonical quoted form
Canonical(r) ==
    RenderParts([namespace |-> IF r.namespace = None THEN <<>> ELSE normalize_tag_part(r.namespace),
                 name      |-> normalize_tag_part(r.name),
                 value     |-> IF r.value = None THEN <<>> ELSE normalize_tag_part(r.value)])

\* C9: for every string t returned by parse_tag_input, get_tag_parts(t)
\* succeeds, returns the triple build_tag assembled for the word, and that
\* triple rendered in canonical form is t.
C9_PartsOfReturnedTags ==
    pc \in {"looked up", "raised"} =>
        /\ pc = "looked up"
        /\ \A i \in Kept :
              \E k \in 1..Len(words) :
                  /\ words[k] = build_tag(wordlist[i])
                  /\ tag_parts[k] = ExpectedParts(BuildParts(wordlist[i]))
        /\ \A k \in 1..Len(words) : Canonical(tag_parts[k]) = words[k]

\* The statement of C9 for the inputs all of whose kept words have a name that
\* build_tag did not normalize to '': it holds, so C9 fails only for the tags
\* with an empty name that C1 is about.
C9_ForNamedWords ==
    (pc \in {"looked up", "raised"}
        /\ \A i \in Kept : BuildParts(wordlist[i]).name # <<>>) =>
        /\ pc = "looked up"
        /\ \A i \in Kept :
              \E k \in 1..Len(words) :
                  /\ words[k] = build_tag(wordlist[i])
                  /\ tag_parts[k] = ExpectedParts(BuildParts(wordlist[i]))
        /\ \A k \in 1..Len(words) : Canonical(tag_parts[k]) = words[k]

----------------------------------------------------------------------------
(* Properties of get_tag_parts, checked under SpecParts *)

\* a double-quoted literal
IsQuotedLiteral(s) ==
    /\ Len(s) >= 3
    /\ s[1] = "\""
    /\ s[Len(s)] = "\""
    /\ \A i \in 2..(Len(s) - 1) : s[i] # "\""

\* an unquoted run: not empty, none of the excluded characters
IsRun(s, excluded) == s # <<>> /\ \A i \in 1..Len(s) : s[i] \notin excluded

\* t is, in full, (namespace ':')? name ('=' value)?
WellFormedTag(t) ==
    \E a \in 0..Len(t) : \E b \in a..Len(t) :
        /\ a > 0 => /\ t[a] = ":"
                    /\ \/ IsQuotedLiteral(Take(t, a - 1))
                       \/ IsRun(Take(t, a - 1), {":", "=", "\""})
        /\ \/ IsQuotedLiteral(SubSeq(t, a + 1, b))
           \/ IsRun(SubSeq(t, a + 1, b), {"=", "\""})
        /\ b < Len(t) => /\ t[b + 1] = "="
                         /\ \/ IsQuotedLiteral(SubSeq(t, b + 2, Len(t)))
                            \/ IsRun(SubSeq(t, b + 2, Len(t)), {"\""})

\* C10: get_tag_parts fails for every string that is not, in full, of the form
\* (namespace ':')? name ('=' value)?; it returns a triple only for a string
\* of that form, never for a prefix of the string given.
C10_MalformedTagFails ==
    pc = "returned" => WellFormedTag(tag)

----------------------------------------------------------------------------
(* Properties of edit_string_for_tags, checked under SpecEdit *)

\* a part with no whitespace at either end and no tab or newline
PlainPart(v) ==
    v = None \/ (/\ v[1] \notin Whitespace
                 /\ v[Len(v)] \notin Whitespace
                 /\ ~Contains(v, "\t")
                 /\ ~Contains(v, "\n"))

PlainTags ==
    \A i \in 1..Len(tags) :
        PlainPart(tags[i].namespace) /\ PlainPart(tags[i].name) /\ PlainPart(tags[i].value)

\* C3: parsing the serialized string gives back the same tags: the triples
\* get_tag_parts gives for the strings of parse_tag_input(edit_string_for_tags(tags))
\* are the triples of the tags given. Stated for the tags of the claim whose
\* parts have no whitespace at either end and no tab or newline; the single
\* tag with a space inside its name is one of them.
C3_RoundTrip ==
    (pc \in {"looked up", "raised"} /\ tags # <<>> /\ PlainTags) =>
        /\ pc = "looked up"
        /\ {[namespace |-> tag_parts[k].namespace, name |-> tag_parts[k].name,
             value |-> tag_parts[k].value] : k \in 1..Len(tag_parts)}
           = SeqToSet(tags)

----------------------------------------------------------------------------
(* Properties of get_tag and get_tag_list, checked under SpecLookup *)

\* parse_tag_input as one call agrees with its steps (checked under Spec): the
\* list returned is the same, and the call hangs where the loop spins
ParseAsOneCall ==
    /\ pc = "done" => ~parse_tag_input(arg).hangs /\ words = parse_tag_input(arg).words
    /\ (pc = "tokenize" /\ input # <<>> /\ FirstMatch(input) = 0) => parse_tag_input(arg).hangs

\* the stored records an argument of get_tag denotes
Denoted(g) ==
    IF g.type = "int" THEN Matching([id |-> g.value])
    ELSE IF g.type = "string" /\ RE_TAG_PARTS(g.value).matched
    THEN Matching([namespace |-> get_tag_parts(g.value).namespace,
                   name      |-> get_tag_parts(g.value).name,
                   value     |-> get_tag_parts(g.value).value])
    ELSE {}

\* C11: get_tag never raises for a Tag, an integer id or any string: it returns
\* the Tag given, the stored record that matches, or None, and it returns None
\* whenever no stored record matches (also for a string that denotes no tag)
C11_GetTagNeverRaises ==
    (pc = "get_tag" /\ given.type \in {"Tag", "int", "string"}) =>
        /\ result.raised = "no"
        /\ IF given.type = "Tag"
           THEN result.type = "Tag" /\ result.value = given.value
           ELSE IF Denoted(given) = {} THEN result.type = "NoneType"
           ELSE result.type = "Tag" /\ result.value \in Denoted(given)

\* a string, or a list whose items are all strings
OfStrings(g) ==
    \/ g.type = "string"
    \/ /\ g.type = "list"
       /\ \A i \in 1..Len(g.value) : g.value[i].type = "string"

\* the strings the tests give as holding no valid tag name
NoTagName ==
    {<<"=">>, <<":">>, <<"\"", "\"", ":", "\"", "\"", "=", "\"", "\"">>}

\* a string, or a non-empty list of strings, that holds no valid tag name
OfNoTagNames(g) ==
    \/ g.type = "string" /\ g.value \in NoTagName
    \/ /\ g.type = "list"
       /\ Len(g.value) > 0
       /\ \A i \in 1..Len(g.value) : g.value[i].type = "string" /\ g.value[i].value \in NoTagName

\* the value returned is a collection with nothing in it
EmptyCollection(r) ==
    \/ r.type \in {"list", "tuple"} /\ r.value = <<>>
    \/ r.type = "QuerySet" /\ r.value.ids = {}

\* C12: for every string and every list of strings get_tag_list returns a
\* collection and does not raise, and the collection is empty when the strings
\* hold no valid tag name
C12_StringsGiveACollection ==
    (pc \in {"get_tag_list", "hangs"} /\ OfStrings(given)) =>
        /\ pc = "get_tag_list"
        /\ result.raised = "no"
        /\ result.type \in {"list", "QuerySet"}
        /\ OfNoTagNames(given) => EmptyCollection(result)

\* the items of a list or tuple are all of the one type
AllOfType(items, type) == \A i \in 1..Len(items) : items[i].type = type

\* the inputs get_tag_list is to reject: a non-empty list or tuple whose items
\* are not all strings, all Tag objects or all integers, and an input that is
\* not a Tag, a QuerySet of Tag, a string, a list or a tuple
Rejected(g) ==
    \/ /\ g.type \in {"list", "tuple"}
       /\ Len(g.value) > 0
       /\ ~AllOfType(g.value, "string")
       /\ ~AllOfType(g.value, "Tag")
       /\ ~AllOfType(g.value, "int")
    \/ g.type \in {"int", "other"}
    \/ g.type = "QuerySet" /\ g.value.model # "Tag"

\* C13: get_tag_list raises ValueError, and makes no lookup, for every
\* non-empty list or tuple whose items are not all tag-name strings, all Tag
\* objects or all integer ids, and for every input of an unsupported type
C13_InvalidInputRaisesValueError ==
    (pc \in {"get_tag_list", "hangs"} /\ Rejected(given)) =>
        /\ pc = "get_tag_list"
        /\ result.raised = "ValueError"
        /\ queries = <<>>

----------------------------------------------------------------------------
(* Properties of check_tag_length, checked under SpecLength *)

\* the length of a part given: nothing for an absent part
GivenLength(v) == IF v = None THEN 0 ELSE Len(v)

\* the sum of the lengths of the three parts given
GivenTotal == GivenLength(given.name) + GivenLength(given.namespace) + GivenLength(given.value)

\* the length the call measured in a dimension, and the limit configured for it
Measured(dimension) ==
    CASE dimension = "name"      -> GivenLength(given.name)
      [] dimension = "namespace" -> GivenLength(given.namespace)
      [] dimension = "value"     -> GivenLength(given.value)
      [] dimension = "tag"       -> GivenTotal

Configured(dimension) ==
    CASE dimension = "name"      -> settings.MAX_TAG_NAME_LENGTH
      [] dimension = "namespace" -> settings.MAX_TAG_NAMESPACE_LENGTH
      [] dimension = "value"     -> settings.MAX_TAG_VALUE_LENGTH
      [] dimension = "tag"       -> settings.MAX_TAG_LENGTH

Exceeded(dimension) == Measured(dimension) > Configured(dimension)

LengthChecked == pc \in {"checked", "too long"}

\* the dimension the error raised names
Reported == result.value[2]

\* C14: check_tag_length raises exactly when the name, the namespace or the
\* value is longer than its limit or the three lengths together exceed
\* MAX_TAG_LENGTH; an absent part counts as nothing, the delimiters are not
\* counted, a length equal to its limit is accepted, and the error carries the
\* name of an exceeded dimension and the limit configured for that dimension
C14_RaisesIffALimitIsExceeded ==
    LengthChecked =>
        /\ result.raised = "ValueError"
              <=> \E d \in {"name", "namespace", "value", "tag"} : Exceeded(d)
        /\ result.raised = "ValueError" =>
              /\ Reported \in {"name", "namespace", "value", "tag"}
              /\ Exceeded(Reported)
              /\ result.value[3] = Configured(Reported)
        /\ result.raised # "ValueError" => result.raised = "no"

\* a call that raised for a part over its limit while another part is absent
\* and a third one is as long as its limit
C14_Witness ==
    /\ pc = "too long"
    /\ Reported = "name"
    /\ given.namespace = None
    /\ GivenLength(given.value) = settings.MAX_TAG_VALUE_LENGTH

\* the first dimension exceeded in the order given
FirstExceeded(order) ==
    order[CHOOSE k \in 1..Len(order) :
              /\ Exceeded(order[k])
              /\ \A j \in 1..(k - 1) : ~Exceeded(order[j])]

\* C15 as stated: the dimension reported is the first one exceeded in the
\* order name, namespace, value, total tag, so that the total is reported
\* only when no part exceeds its own limit
C15_TotalCheckedLast ==
    pc = "too long" => Reported = FirstExceeded(<<"name", "namespace", "value", "tag">>)

\* C15 amended: the dimension reported is the first one exceeded in the order
\* total tag, name, namespace, value, so that a part is reported only when
\* the three lengths together do not exceed MAX_TAG_LENGTH
C15_TotalCheckedFirst ==
    pc = "too long" => Reported = FirstExceeded(<<"tag", "name", "namespace", "value">>)

\* a call that raised while the name and the namespace both exceed their limits
\* and the total does not
C15_Witness ==
    /\ pc = "too long"
    /\ Exceeded("name")
    /\ Exceeded("namespace")
    /\ ~Exceeded("tag")

\* C16: whenever the three lengths together exceed MAX_TAG_LENGTH the error
\* names the dimension tag, also when a part exceeds its own limit
C16_TotalReportedAsTag ==
    (LengthChecked /\ GivenTotal > settings.MAX_TAG_LENGTH) =>
        /\ pc = "too long"
        /\ Reported = "tag"
        /\ result.value[3] = settings.MAX_TAG_LENGTH

\* a call that raised while the total and the value both exceed their limits
\* and the value is the only part that does
C16_Witness ==
    /\ pc = "too long"
    /\ Exceeded("tag")
    /\ Exceeded("value")
    /\ ~Exceeded("name")
    /\ ~Exceeded("namespace")

----------------------------------------------------------------------------
(* Properties of calculate_cloud, checked under SpecCloud *)

\* calculate_cloud has returned normally
CloudReturned == pc = "cloud"

\* calculate_cloud has returned or raised
CloudCalled == pc \in {"cloud", "raised"}

\* the positions of the list given
Positions == 1..Len(given.tags)

\* C17: after calculate_cloud returns normally for a non-empty list and
\* steps >= 1, every record has a font_size in 1..steps that this call wrote
C17_EveryRecordGetsAFontSize ==
    (CloudReturned /\ Len(given.tags) > 0 /\ given.steps >= 1) =>
        \A k \in Positions :
            /\ tags[k].font_set
            /\ tags[k].font_size \in 1..given.steps

\* the smallest 1-based bucket b with
\* count <= min_count + b * (max_count - min_count) / steps, in exact arithmetic
ExactBucket(count, ws) ==
    Lowest({b \in 1..ws.steps :
              count * ws.steps <= ws.min_weight * ws.steps
                                     + b * (ws.max_weight - ws.min_weight)})

\* C18: under LINEAR every record gets the smallest bucket b with
\* count <= min_count + b * (max_count - min_count) / steps, a count on a
\* threshold getting the lower bucket; with min_count < max_count a record
\* with the minimum count gets 1 and a record with the maximum count gets steps
C18_LinearBuckets ==
    (/\ CloudReturned
     /\ Len(given.tags) > 0
     /\ given.steps >= 1
     /\ given.distribution = LINEAR) =>
        \A k \in Positions :
            /\ tags[k].font_set
            /\ tags[k].font_size = ExactBucket(tags[k].count, Weights(given.tags, given.steps))
            /\ Lowest(Counts(given.tags)) < Highest(Counts(given.tags)) =>
                  /\ tags[k].count = Lowest(Counts(given.tags)) => tags[k].font_size = 1
                  /\ tags[k].count = Highest(Counts(given.tags)) =>
                        tags[k].font_size = given.steps

\* C19: for a non-empty list, steps >= 1 and a distribution other than
\* LOGARITHMIC and LINEAR, calculate_cloud raises the invalid-distribution
\* error carrying the distribution given, whatever the counts are
C19_InvalidDistributionRaises ==
    (/\ CloudCalled
     /\ Len(given.tags) > 0
     /\ given.steps >= 1
     /\ given.distribution \notin {LOGARITHMIC, LINEAR}) =>
        /\ result.raised = "ValueError"
        /\ result.value = <<given.distribution>>

\* the attributes of a record other than font_size (and the flag of the call)
KeptAttributes == {"id", "namespace", "name", "value", "count"}

\* C20: calculate_cloud returns the list it was given, with the same records
\* in the same order and every attribute but font_size as it was, and it
\* returns an empty list unchanged without raising, whatever steps and
\* distribution are
C20_ReturnsTheListGiven ==
    CloudCalled =>
        /\ Len(tags) = Len(given.tags)
        /\ \A k \in Positions : \A a \in KeptAttributes : tags[k][a] = given.tags[k][a]
        /\ CloudReturned => result.type = "list" /\ result.value = tags
        /\ given.tags = <<>> => CloudReturned /\ tags = <<>>

\* a call that wrote a new font_size into both records of a list
C20_Witness ==
    /\ CloudReturned
    /\ Len(tags) = 2
    /\ \A k \in Positions : tags[k].font_set /\ tags[k].font_size # given.tags[k].font_size
    /\ tags[1].count # tags[1].font_size

\* a call that returned an empty list, with no steps and an unknown distribution
C20_WitnessEmpty ==
    /\ CloudReturned
    /\ given.tags = <<>>
    /\ given.steps = 0
    /\ given.distribution \notin {LOGARITHMIC, LINEAR}

----------------------------------------------------------------------------
(* Properties of edit_string_for_tags, checked under SpecRender *)

\* edit_string_for_tags has returned
Edited == pc # "edit"

\* the part holds one of the characters , : =
NeedsQuotes(v) == \E i \in 1..Len(v) : v[i] \in {",", ":", "="}

\* a part as the claim has it shown: nothing for an absent or empty part, and
\* the part between double quotes when it holds , : or =
ShownPart(v) ==
    IF v = None \/ v = <<>> THEN <<>>
    ELSE IF NeedsQuotes(v) THEN <<"\"">> \o v \o <<"\"">>
    ELSE v

\* namespace:name=value, a part that is not shown going with its delimiter
Shown(t) ==
    (IF ShownPart(t.namespace) # <<>> THEN ShownPart(t.namespace) \o <<":">> ELSE <<>>)
    \o ShownPart(t.name)
    \o (IF ShownPart(t.value) # <<>> THEN <<"=">> \o ShownPart(t.value) ELSE <<>>)

ShownTags == [i \in 1..Len(tags) |-> Shown(tags[i])]

\* C21: the string returned is the tags in order, each one rendered as
\* namespace:name=value without its absent or empty namespace and value and
\* their delimiters, each part in double quotes exactly when it holds , : or =
C21_RendersEachTag ==
    Edited => \E glue \in {<<" ">>, <<",", " ">>} : edit_string = Join(glue, ShownTags)

\* a rendered list of two tags: one with a namespace that is quoted and a name
\* that is not, one with an empty namespace, no value and a quoted name
C21_Witness ==
    /\ Edited
    /\ Len(tags) = 2
    /\ tags[1].namespace = <<":">>
    /\ tags[1].name = <<"a">>
    /\ tags[1].value = None
    /\ tags[2].namespace = <<>>
    /\ tags[2].name = <<"=">>
    /\ tags[2].value = None

\* a part that is not quoted holds a whitespace character
LooseWhitespace(t) ==
    \E v \in {t.namespace, t.name, t.value} :
        /\ v # None
        /\ ~NeedsQuotes(v)
        /\ \E i \in 1..Len(v) : v[i] \in Whitespace

\* C22: the rendered tags are joined with ', ' if a part that is not quoted
\* holds a whitespace character (a tab as well as a space) in any tag of the
\* list, and with one space otherwise
C22_CommaGlueOnWhitespace ==
    Edited =>
        edit_string = Join(IF \E i \in 1..Len(tags) : LooseWhitespace(tags[i])
                           THEN <<",", " ">> ELSE <<" ">>,
                           ShownTags)

----------------------------------------------------------------------------
(* Properties of build_tag and normalize_tag_part, checked under SpecBuild *)

\* build_tag has returned
Built == pc = "build_tag"

IsEquals(t) == t = <<"=">>

IsColon(t) == t = <<":">>

\* the tokens of w from position lo to position hi that are content: an '='
\* among them is one that did not split
ContentOf(w, lo, hi) == SelectSeq(SubSeq(w, lo, hi), LAMBDA t : ~IsEquals(t))

\* the place of the first effective separator of w, or 0: the first ':', or
\* the first '=' with content before it, whichever comes first
FirstSeparator(w) ==
    LET seps == {i \in 1..Len(w) :
                    \/ IsColon(w[i])
                    \/ IsEquals(w[i]) /\ ContentOf(w, 1, i - 1) # <<>>}
    IN  IF seps = {} THEN 0 ELSE CHOOSE i \in seps : \A j \in seps : i <= j

\* the place of the first '=' after the ':' at s that follows content, or
\* Len(w) + 1
NameEnd(w, s) ==
    LET seps == {k \in (s + 1)..Len(w) : IsEquals(w[k]) /\ ContentOf(w, s + 1, k - 1) # <<>>}
    IN  IF seps = {} THEN Len(w) + 1 ELSE CHOOSE k \in seps : \A j \in seps : k <= j

\* namespace, name and value as the claim assigns them, for a word whose
\* first effective separator is at s
Assigned(w, s) ==
    IF IsEquals(w[s])
    THEN <<<<>>, ContentOf(w, 1, s - 1), SubSeq(w, s + 1, Len(w))>>
    ELSE IF ContentOf(w, s + 1, NameEnd(w, s) - 1) # <<>>
    THEN <<ContentOf(w, 1, s - 1), ContentOf(w, s + 1, NameEnd(w, s) - 1),
           SubSeq(w, NameEnd(w, s) + 1, Len(w))>>
    ELSE <<<<>>, ContentOf(w, 1, s - 1), <<>>>>

NormalizedParts(raw) ==
    [namespace |-> normalize_tag_part(Concat(raw[1])),
     name      |-> normalize_tag_part(Concat(raw[2])),
     value     |-> normalize_tag_part(Concat(raw[3]))]

\* C23: for a word with a separator, if the first effective separator is '='
\* there is no namespace, the name is the content before it and the value is
\* all that follows it; if it is ':' and content follows it, the namespace is
\* the content before it, the name the content up to the first '=' that
\* follows name content, and the value all that follows that '='; if nothing
\* follows the ':' the name is the content before it and there is no
\* namespace and no value
C23_PartsOfAWord ==
    (Built /\ FirstSeparator(given.value) > 0) =>
        parts = NormalizedParts(Assigned(given.value, FirstSeparator(given.value)))

\* a word split at '=' whose value holds a later ':' and a later '='
C23_Witness ==
    /\ Built
    /\ given.value = <<<<"a">>, <<"=">>, <<"b">>, <<":">>, <<"=">>>>
    /\ parts.namespace = <<>>
    /\ parts.name = <<"a">>
    /\ parts.value = <<"\"", "b", ":", "=", "\"">>

\* the places of the '=' tokens of w that did not split
EqualsWithoutContent(w) ==
    LET s == FirstSeparator(w)
    IN  {i \in 1..Len(w) :
            /\ IsEquals(w[i])
            /\ \/ s = 0
               \/ i < s
               \/ IsColon(w[s]) /\ s < i /\ i < NameEnd(w, s)}

\* C24 as claimed: an '=' with no content before it is folded into the part
\* being built and appears in the result
C24_EqualsWithoutContentIsFolded ==
    (Built /\ EqualsWithoutContent(given.value) # {}) =>
        Contains(parts.namespace \o parts.name, "=")

\* w without the tokens at the places of S
Without(w, S) ==
    LET kept == {i \in 1..Len(w) : i \notin S}
        Nth(k) == CHOOSE i \in kept : Cardinality({j \in kept : j <= i}) = k
    IN  [k \in 1..Cardinality(kept) |-> w[Nth(k)]]

\* C24: an '=' with no content before it does not split and is dropped: the
\* word gives what it gives without these tokens, and none of them appears
\* in the namespace or the name
C24_EqualsWithoutContentIsDropped ==
    Built =>
        /\ parts = BuildParts(Without(given.value, EqualsWithoutContent(given.value)))
        /\ ~Contains(parts.namespace \o parts.name, "=")

\* a word with an '=' before any content and an '=' right after the ':'
C24_Witness ==
    /\ Built
    /\ given.value = <<<<"=">>, <<"a">>, <<":">>, <<"=">>, <<"b">>>>
    /\ result.value = <<"a", ":", "b">>

\* normalize_tag_part has returned
Normalized == pc = "normalize_tag_part"

\* the value returned is wrapped in a pair of double quotes
IsWrapped(r) == Len(r) >= 2 /\ r[1] = "\"" /\ r[Len(r)] = "\""

Inner(r) == IF IsWrapped(r) THEN SubSeq(r, 2, Len(r) - 1) ELSE r

\* the place in s of its k-th character that is no double quote
NthUnquoted(s, k) ==
    CHOOSE i \in 1..Len(s) :
        s[i] # "\"" /\ Cardinality({j \in 1..i : s[j] # "\""}) = k

C25_WitnessWrapped ==
    /\ Normalized
    /\ given.value = <<"a", "\"", ":">>
    /\ result.value = <<"\"", "a", ":", "\"">>

----------------------------------------------------------------------------
(* Further properties of parse_tag_input, checked under Spec *)

Quotes(s) == {i \in 1..Len(s) : s[i] = "\""}

\* s without its last double quote
WithoutLastQuote(s) ==
    Without(s, {CHOOSE i \in Quotes(s) : \A j \in Quotes(s) : j <= i})

\* C26: when the input has an odd number of double quotes, the list returned
\* is the list returned for the input without its last double quote
C26_UnclosedQuoteIgnored ==
    (pc = "done" /\ Cardinality(Quotes(arg)) % 2 = 1) =>
        \E o \in {parse_tag_input(WithoutLastQuote(arg))} :
            ~o.hangs /\ words = o.words

\* the tokens next to token i
Neighbours(i) == {j \in {i - 1, i + 1} : j \in 1..Len(token_list)}

\* C27: when the comma delimits, the whitespace directly before and after a
\* delimiting comma is in the comma token, so no space token stands next to a
\* comma token and no string returned begins or ends with whitespace
C27_CommaTakesItsWhitespace ==
    (pc = "done" /\ Tokenized /\ saw_loose_comma) =>
        /\ \A i \in 1..Len(token_list) :
              token_list[i].name = "comma" =>
                  \A j \in Neighbours(i) : token_list[j].name # "space"
        /\ \A k \in 1..Len(words) :
              /\ words[k] # <<>>
              /\ words[k][1] \notin Whitespace
              /\ words[k][Len(words[k])] \notin Whitespace

\* the contents of the tokens produced so far, in order
TokenContents == Concat([i \in 1..Len(token_list) |-> token_list[i].content])

\* C28: at every step of the tokenizing loop, and after it, the contents of
\* the tokens followed by the remaining input are the input given
C28_TokenizerLosesNothing ==
    (Tokenized /\ pc # "call") => TokenContents \o input = arg

----------------------------------------------------------------------------
(* Further properties of calculate_cloud, checked under SpecCloud *)

\* the record has a font_size attribute
HasFontSize(t) == t.font_size # 0

\* C29: after a call with steps >= 1 every record has a font_size and a record
\* with the smaller count has the smaller or the same font_size, so records
\* with equal counts have equal font_size; when all counts are equal every
\* record has font_size 1
C29_MonotoneInCount ==
    (CloudReturned /\ given.steps >= 1
        /\ given.distribution \in {LOGARITHMIC, LINEAR}) =>
        /\ \A a \in Positions : \A b \in Positions :
              tags[a].count <= tags[b].count =>
                  /\ HasFontSize(tags[a])
                  /\ HasFontSize(tags[b])
                  /\ tags[a].font_size <= tags[b].font_size
        /\ Cardinality(Counts(tags)) = 1 =>
              \A a \in Positions : tags[a].font_size = 1

\* among the records the call wrote to, the smaller count has the smaller or
\* the same font_size
MonotoneWhereWritten ==
    CloudReturned =>
        \A a \in Positions : \A b \in Positions :
            (tags[a].count <= tags[b].count /\ tags[a].font_set /\ tags[b].font_set) =>
                tags[a].font_size <= tags[b].font_size

\* C30: when calculate_cloud raises the invalid-distribution error every
\* record is as it was before the call, its font_size or the absence of one
\* included
C30_NothingWrittenBeforeTheError ==
    (pc = "raised" /\ result.raised = "ValueError") => tags = given.tags

\* a call that raised the error on two records, the first of which had a
\* font_size from an earlier call and the second none
C30_Witness ==
    /\ pc = "raised"
    /\ result.raised = "ValueError"
    /\ result.value = <<3>>
    /\ Len(tags) = 2
    /\ tags[1].font_size = 1
    /\ tags[2].font_size = 0
    /\ given.steps = 4

====
